---- MODULE Spec2Model ----
(***************************************************************************)
(* Model of generar_template.py: the payroll consolidation pipeline        *)
(* formatear_nomina_cliente and the name heuristic                         *)
(* separar_nombres_y_apellidos.                                            *)
(*                                                                         *)
(* Text is a sequence of one-character strings, so that strip, lower,      *)
(* upper, title and split are computed character by character.  A missing  *)
(* cell (pandas NaN) is the value NaN below, which no text equals.         *)
(***************************************************************************)
EXTENDS Integers, Sequences, FiniteSets, TLC

VARIABLES
    carpeta,                      \* archivos_cliente: does it exist, and its .xlsx files
    archivo_salida,               \* Template_Listo_Para_Subir1.xlsx on disk
    archivo_excluidos,            \* Reporte_Registros_Excluidos.xlsx on disk
    ejecucion,                    \* which invocation of the script is running
    pc,                           \* position inside formatear_nomina_cliente
    archivos_excel,               \* the list glob returned
    lista_dataframes_procesados,
    df_cliente,
    df_sin_rut,
    df_con_rut,
    df_duplicados,
    df_final,
    texto,                        \* argument of separar_nombres_y_apellidos
    resultado                     \* its return value

vars ==
    << carpeta, archivo_salida, archivo_excluidos, ejecucion, pc, archivos_excel,
       lista_dataframes_procesados, df_cliente, df_sin_rut, df_con_rut,
       df_duplicados, df_final, texto, resultado >>

(***************************************************************************)
(* Bounds of the model.                                                    *)
(***************************************************************************)
\* Rows, empty sheets and unreadable files in the input directory, together.
MaxElementos == 2

\* Longest text handed to separar_nombres_y_apellidos.
MaxLen == 8

(***************************************************************************)
(* Text                                                                    *)
(***************************************************************************)
NaN ==
    << "<NaN>" >>

Vacio ==
    << >>

MAYUSCULAS ==
    << "A", "B", "C", "D", "E", "F", "G", "H", "I", "J", "K", "L", "M", "N", "O",
       "P", "Q", "R", "S", "T", "U", "V", "W", "X", "Y", "Z",
       "Á", "É", "Í", "Ó", "Ú", "Ñ" >>

MINUSCULAS ==
    << "a", "b", "c", "d", "e", "f", "g", "h", "i", "j", "k", "l", "m", "n", "o",
       "p", "q", "r", "s", "t", "u", "v", "w", "x", "y", "z",
       "á", "é", "í", "ó", "ú", "ñ" >>

Posicion(tabla, c) ==
    CHOOSE i \in 1..Len(tabla) : tabla[i] = c

EsMayuscula(c) ==
    \E i \in 1..Len(MAYUSCULAS) : MAYUSCULAS[i] = c

EsMinuscula(c) ==
    \E i \in 1..Len(MINUSCULAS) : MINUSCULAS[i] = c

EsLetra(c) ==
    EsMayuscula(c) \/ EsMinuscula(c)

EsEspacio(c) ==
    c = " "

\* str.lower and str.upper, one character at a time.
LowerChar(c) ==
    IF EsMayuscula(c) THEN MINUSCULAS[Posicion(MAYUSCULAS, c)] ELSE c

UpperChar(c) ==
    IF EsMinuscula(c) THEN MAYUSCULAS[Posicion(MINUSCULAS, c)] ELSE c

Lower(s) ==
    [i \in 1..Len(s) |-> LowerChar(s[i])]

Upper(s) ==
    [i \in 1..Len(s) |-> UpperChar(s[i])]

\* str.title: a letter is upper-cased when no letter precedes it, lower-cased
\* otherwise.
Title(s) ==
    [i \in 1..Len(s) |->
        IF i = 1 \/ ~EsLetra(s[i - 1]) THEN UpperChar(s[i]) ELSE LowerChar(s[i])]

\* str.strip: drop leading and trailing whitespace.
Strip(s) ==
    LET negros == {i \in 1..Len(s) : ~EsEspacio(s[i])}
    IN  IF negros = {} THEN Vacio
        ELSE LET a == CHOOSE i \in negros : \A j \in negros : i <= j
                 b == CHOOSE i \in negros : \A j \in negros : j <= i
             IN  SubSeq(s, a, b)

\* str.replace(viejo, nuevo) for a single character viejo.
ReplaceChar(s, viejo, nuevo) ==
    [i \in 1..Len(s) |-> IF s[i] = viejo THEN nuevo ELSE s[i]]

\* str.split() with no argument: the maximal runs of non-whitespace, in order.
RECURSIVE Split(_)
Split(s) ==
    IF s = Vacio THEN << >>
    ELSE IF EsEspacio(Head(s)) THEN Split(Tail(s))
    ELSE LET fin == IF \E i \in 1..Len(s) : EsEspacio(s[i])
                    THEN (CHOOSE i \in 1..Len(s) :
                             /\ EsEspacio(s[i])
                             /\ \A j \in 1..(i - 1) : ~EsEspacio(s[j])) - 1
                    ELSE Len(s)
         IN  << SubSeq(s, 1, fin) >> \o Split(SubSeq(s, fin + 1, Len(s)))

\* " ".join(partes)
RECURSIVE Join(_)
Join(partes) ==
    IF partes = << >> THEN Vacio
    ELSE IF Len(partes) = 1 THEN partes[1]
    ELSE partes[1] \o << " " >> \o Join(Tail(partes))

\* astype(str) of one cell: NaN prints as "nan".
AsStr(celda) ==
    IF celda = NaN THEN << "n", "a", "n" >> ELSE celda

\* fillna(valor) of one cell.
FillNa(celda, valor) ==
    IF celda = NaN THEN valor ELSE celda

\* Series.replace(lista, valor) of one cell: whole-cell matches only.
Replace(celda, lista, valor) ==
    IF celda \in lista THEN valor ELSE celda

Range(s) ==
    {s[i] : i \in 1..Len(s)}

(***************************************************************************)
(* separar_nombres_y_apellidos                                             *)
(***************************************************************************)
\* Variant: the surnames of a long name start one token too late.
separar_desde_el_cuarto(t) ==
    IF t = NaN \/ Strip(t) = Vacio THEN << Vacio, Vacio >>
    ELSE LET partes == Split(Strip(t))
             total_palabras == Len(partes)
         IN  IF total_palabras = 1 THEN << partes[1], Vacio >>
             ELSE IF total_palabras = 2 THEN << partes[1], partes[2] >>
             ELSE IF total_palabras = 3
                  THEN << partes[1], partes[2] \o << " " >> \o partes[3] >>
             ELSE << Join(SubSeq(partes, 1, 2)),
                     Join(SubSeq(partes, 4, total_palabras)) >>

separar_nombres_y_apellidos(t) ==
    IF t = NaN \/ Strip(t) = Vacio THEN << Vacio, Vacio >>
    ELSE LET partes == Split(Strip(t))
             total_palabras == Len(partes)
         IN  IF total_palabras = 1 THEN << partes[1], Vacio >>
             ELSE IF total_palabras = 2 THEN << partes[1], partes[2] >>
             ELSE IF total_palabras = 3
                  THEN << partes[1], partes[2] \o << " " >> \o partes[3] >>
             ELSE << Join(SubSeq(partes, 1, 2)),
                     Join(SubSeq(partes, 3, total_palabras)) >>

(***************************************************************************)
(* Schema: the template and the alias table                                *)
(***************************************************************************)
(* Column names, spelled character by character. *)
c_nombre ==
    <<"n", "o", "m", "b", "r", "e">>
c_apellido ==
    <<"a", "p", "e", "l", "l", "i", "d", "o">>
c_rut ==
    <<"r", "u", "t">>
c_correo ==
    <<"c", "o", "r", "r", "e", "o">>
c_direccion ==
    <<"d", "i", "r", "e", "c", "c", "i", "o", "n">>
c_telefono ==
    <<"t", "e", "l", "e", "f", "o", "n", "o">>
c_fecha_de_ingreso ==
    <<"f", "e", "c", "h", "a", " ", "d", "e", " ", "i", "n", "g", "r", "e", "s", "o">>
c_fecha_de_nacimiento ==
    <<"f", "e", "c", "h", "a", " ", "d", "e", " ", "n", "a", "c", "i", "m", "i", "e", "n", "t", "o">>
c_cargo ==
    <<"c", "a", "r", "g", "o">>
c_tipo_de_usuario ==
    <<"t", "i", "p", "o", " ", "d", "e", " ", "u", "s", "u", "a", "r", "i", "o">>
c_centro_de_trabajo ==
    <<"c", "e", "n", "t", "r", "o", " ", "d", "e", " ", "t", "r", "a", "b", "a", "j", "o">>
c_subempresa ==
    <<"s", "u", "b", "e", "m", "p", "r", "e", "s", "a">>
c_empresacontratista ==
    <<"e", "m", "p", "r", "e", "s", "a", "c", "o", "n", "t", "r", "a", "t", "i", "s", "t", "a">>
c_rut_supervisor ==
    <<"r", "u", "t", " ", "s", "u", "p", "e", "r", "v", "i", "s", "o", "r">>
c_correo_de_bienvenida ==
    <<"c", "o", "r", "r", "e", "o", " ", "d", "e", " ", "b", "i", "e", "n", "v", "e", "n", "i", "d", "a">>
c_area ==
    <<"á", "r", "e", "a">>
c_nombre_completo ==
    <<"n", "o", "m", "b", "r", "e", "_", "c", "o", "m", "p", "l", "e", "t", "o">>
c_codigo_rbd_temp ==
    <<"c", "o", "d", "i", "g", "o", "_", "r", "b", "d", "_", "t", "e", "m", "p">>
c_nombre_rbd_temp ==
    <<"n", "o", "m", "b", "r", "e", "_", "r", "b", "d", "_", "t", "e", "m", "p">>
c_origen_hoja ==
    <<"o", "r", "i", "g", "e", "n", "_", "h", "o", "j", "a">>
c_MOTIVO_RECHAZO ==
    <<"M", "O", "T", "I", "V", "O", "_", "R", "E", "C", "H", "A", "Z", "O">>

columnas_template ==
    << c_nombre,
       c_apellido,
       c_rut,
       c_correo,
       c_direccion,
       c_telefono,
       c_fecha_de_ingreso,
       c_fecha_de_nacimiento,
       c_cargo,
       c_tipo_de_usuario,
       c_centro_de_trabajo,
       c_subempresa,
       c_empresacontratista,
       c_rut_supervisor,
       c_correo_de_bienvenida,
       c_area >>

alias_columnas ==
    <<
       << c_nombre_completo,
          << <<"n", "o", "m", "b", "r", "e", " ", "c", "o", "m", "p", "l", "e", "t", "o">>,
             <<"n", "o", "m", "b", "r", "e", "s", " ", "y", " ", "a", "p", "e", "l", "l", "i", "d", "o", "s">>,
             <<"n", "o", "m", "b", "r", "e", " ", "t", "r", "a", "b", "a", "j", "a", "d", "o", "r">>,
             <<"t", "r", "a", "b", "a", "j", "a", "d", "o", "r">>,
             <<"c", "o", "l", "a", "b", "o", "r", "a", "d", "o", "r">>,
             <<"e", "m", "p", "l", "e", "a", "d", "o">> >> >>,
       << c_nombre,
          << <<"n", "o", "m", "b", "r", "e", "s">>,
             <<"p", "r", "i", "m", "e", "r", " ", "n", "o", "m", "b", "r", "e">>,
             <<"n", "o", "m", "b", "r", "e">>,
             <<"n", "o", "m", "b", "r", "e", "(", "s", ")">> >> >>,
       << c_apellido,
          << <<"a", "p", "e", "l", "l", "i", "d", "o", "s">>,
             <<"a", "p", "e", "l", "l", "i", "d", "o", "s", " ", "t", "r", "a", "b", "a", "j", "a", "d", "o", "r">>,
             <<"a", "p", "e", "l", "l", "i", "d", "o">>,
             <<"a", "p", "e", "l", "l", "i", "d", "o", "(", "s", ")">> >> >>,
       << c_correo,
          << <<"e", "m", "a", "i", "l">>,
             <<"c", "o", "r", "r", "e", "o", " ", "e", "l", "e", "c", "t", "r", "o", "n", "i", "c", "o">>,
             <<"e", "-", "m", "a", "i", "l">>,
             <<"m", "a", "i", "l">> >> >>,
       << c_rut,
          << <<"r", "u", "t", " ", "t", "r", "a", "b", "a", "j", "a", "d", "o", "r">>,
             <<"r", "u", "t", " ", "e", "m", "p", "l", "e", "a", "d", "o">>,
             <<"i", "d", "e", "n", "t", "i", "f", "i", "c", "a", "c", "i", "o", "n">>,
             <<"r", "u", "n">>,
             <<"r", ".", "u", ".", "t">>,
             <<"i", "d", " ", "e", "m", "p", "l", "e", "a", "d", "o">>,
             <<"i", "d", "_", "e", "m", "p", "l", "e", "a", "d", "o">> >> >>,
       << c_telefono,
          << <<"c", "e", "l", "u", "l", "a", "r">>,
             <<"t", "e", "l", "e", "f", "o", "n", "o">>,
             <<"f", "o", "n", "o">>,
             <<"t", "e", "l">> >> >>,
       << c_fecha_de_ingreso,
          << <<"f", "e", "c", "h", "a", " ", "i", "n", "g", "r", "e", "s", "o">>,
             <<"i", "n", "g", "r", "e", "s", "o">>,
             <<"f", "e", "c", "h", "a", " ", "c", "o", "n", "t", "r", "a", "t", "a", "c", "i", "o", "n">>,
             <<"f", "e", "c", "h", "a", " ", "d", "e", " ", "i", "n", "i", "c", "i", "o", " ", "d", "e", " ", "c", "o", "n", "t", "r", "a", "t", "o">>,
             <<"f", "e", "c", "h", "a", " ", "i", "n", "i", "c", "i", "o", " ", "c", "o", "n", "t", "r", "a", "t", "o">>,
             <<"i", "n", "i", "c", "i", "o", " ", "d", "e", " ", "c", "o", "n", "t", "r", "a", "t", "o">>,
             <<"i", "n", "i", "c", "i", "o", " ", "c", "o", "n", "t", "r", "a", "t", "o">> >> >>,
       << c_fecha_de_nacimiento,
          << <<"f", "e", "c", "h", "a", " ", "n", "a", "c", "i", "m", "i", "e", "n", "t", "o">>,
             <<"n", "a", "c", "i", "m", "i", "e", "n", "t", "o">>,
             <<"f", "e", "c", "h", "a", " ", "d", "e", " ", "n", "a", "c">>,
             <<"c", "u", "m", "p", "l", "e", "a", "ñ", "o", "s">> >> >>,
       << c_area,
          << <<"a", "r", "e", "a">>,
             <<"d", "e", "p", "a", "r", "t", "a", "m", "e", "n", "t", "o">>,
             <<"s", "e", "c", "c", "i", "o", "n">> >> >>,
       << c_centro_de_trabajo,
          << <<"c", "e", "n", "t", "r", "o", " ", "d", "e", " ", "t", "r", "a", "b", "a", "j", "o">>,
             <<"s", "u", "c", "u", "r", "s", "a", "l", " ", "/", " ", "r", "b", "d">>,
             <<"s", "u", "c", "u", "r", "s", "a", "l", " ", "r", "b", "d">>,
             <<"s", "u", "c", "u", "r", "s", "a", "l">>,
             <<"l", "u", "g", "a", "r", " ", "d", "e", " ", "t", "r", "a", "b", "a", "j", "o">> >> >>,
       << c_codigo_rbd_temp,
          << <<"r", "b", "d", " ", "i", "n", "f", "o", "r", "m", "a", "d", "o", " ", "p", "o", "r", " ", "v", "e", "r", "o">>,
             <<"r", "b", "d">>,
             <<"c", "o", "d", "i", "g", "o", " ", "r", "b", "d">> >> >>,
       << c_nombre_rbd_temp,
          << <<"n", "o", "m", "b", "r", "e", " ", "r", "b", "d">>,
             <<"e", "s", "t", "a", "b", "l", "e", "c", "i", "m", "i", "e", "n", "t", "o">>,
             <<"c", "o", "l", "e", "g", "i", "o">> >> >>
    >>

\* The inverted dictionary: a later entry for the same alias overwrites an
\* earlier one; a header that is no alias is left alone by rename.
mapeo_traduccion(h) ==
    LET entradas == {i \in 1..Len(alias_columnas) : h \in Range(alias_columnas[i][2])}
    IN  IF entradas = {} THEN h
        ELSE alias_columnas[CHOOSE i \in entradas : \A j \in entradas : j <= i][1]

\* Header normalisation: str, strip, lower, then the five accented vowels.
NormalizarEncabezado(h) ==
    ReplaceChar(ReplaceChar(ReplaceChar(ReplaceChar(ReplaceChar(
        Lower(Strip(h)), "á", "a"), "é", "e"), "í", "i"), "ó", "o"), "ú", "u")

(***************************************************************************)
(* DataFrames: an ordered list of column names and an ordered list of     *)
(* rows; a row carries its index label and one cell per column.            *)
(***************************************************************************)
DataFrame(columnas, filas) ==
    [columns |-> columnas, filas |-> filas]

SinDatos ==
    DataFrame(<< >>, << >>)

\* Index.duplicated() negated: the first occurrence of every name, in order.
RECURSIVE SinDuplicados(_)
SinDuplicados(s) ==
    IF s = << >> THEN << >>
    ELSE LET r == SinDuplicados(SubSeq(s, 1, Len(s) - 1))
         IN  IF s[Len(s)] \in Range(r) THEN r ELSE Append(r, s[Len(s)])

\* Boolean indexing: the elements of s whose mask entry is TRUE.
RECURSIVE Seleccionar(_, _)
Seleccionar(s, mask) ==
    IF s = << >> THEN << >>
    ELSE LET r == Seleccionar(SubSeq(s, 1, Len(s) - 1), SubSeq(mask, 1, Len(s) - 1))
         IN  IF mask[Len(s)] THEN Append(r, s[Len(s)]) ELSE r

Filtrar(df, mask) ==
    DataFrame(df.columns, Seleccionar(df.filas, mask))

\* df[col] = valores: overwrite the column, or append it as the last one.
AsignarColumna(df, col, valores) ==
    DataFrame(
        IF col \in Range(df.columns) THEN df.columns ELSE Append(df.columns, col),
        [k \in 1..Len(df.filas) |->
            [idx |-> df.filas[k].idx,
             v   |-> [c \in Range(df.columns) \cup {col} |->
                        IF c = col THEN valores[k] ELSE df.filas[k].v[c]]]])

Columna(df, col) ==
    [k \in 1..Len(df.filas) |-> df.filas[k].v[col]]

RECURSIVE Aplanar(_)
Aplanar(ss) ==
    IF ss = << >> THEN << >> ELSE Head(ss) \o Aplanar(Tail(ss))

\* pd.concat(lista, ignore_index=True): the union of the columns in order of
\* first appearance, NaN where a frame lacks a column, a fresh index 0..n-1.
Concat(lista) ==
    LET columnas == SinDuplicados(Aplanar([i \in 1..Len(lista) |-> lista[i].columns]))
        filas    == Aplanar([i \in 1..Len(lista) |->
                        [k \in 1..Len(lista[i].filas) |->
                            [c \in Range(columnas) |->
                                IF c \in Range(lista[i].columns)
                                THEN lista[i].filas[k].v[c] ELSE NaN]]])
    IN  DataFrame(columnas, [k \in 1..Len(filas) |-> [idx |-> k - 1, v |-> filas[k]]])

\* One sheet of one file, lines 107-123.
ProcesarHoja(nombre_archivo, hoja) ==
    LET origen == nombre_archivo \o << " ", "-", ">", " " >> \o hoja.nombre
        enc0   == IF c_origen_hoja \in Range(hoja.encabezados)
                  THEN hoja.encabezados
                  ELSE Append(hoja.encabezados, c_origen_hoja)
        celdas0(f) == [i \in 1..Len(enc0) |->
                          IF enc0[i] = c_origen_hoja THEN origen ELSE f[i]]
        enc1   == [i \in 1..Len(enc0) |-> mapeo_traduccion(NormalizarEncabezado(enc0[i]))]
        primera(c) == CHOOSE i \in 1..Len(enc1) :
                          enc1[i] = c /\ \A j \in 1..(i - 1) : enc1[j] # c
    IN  DataFrame(
            SinDuplicados(enc1),
            [k \in 1..Len(hoja.filas) |->
                [idx |-> k - 1,
                 v   |-> [c \in Range(enc1) |-> celdas0(hoja.filas[k])[primera(c)]]]])

\* One file, lines 98-123: the frames its non-empty sheets contribute.
ProcesarArchivo(archivo) ==
    IF ~archivo.legible THEN << >>
    ELSE LET utiles == Seleccionar(archivo.hojas,
                          [i \in 1..Len(archivo.hojas) |-> archivo.hojas[i].filas # << >>])
         IN  [i \in 1..Len(utiles) |-> ProcesarHoja(archivo.nombre, utiles[i])]

(***************************************************************************)
(* Key audit, lines 132-165                                                *)
(***************************************************************************)
TOKENS_NULOS ==
    { << "N", "A", "N" >>, << "N", "O", "N", "E" >>, << "N", "U", "L", "L" >> }

\* Variant: the key is trimmed but not upper-cased.
NormalizarRut_sin_upper(celda) ==
    Replace(Strip(AsStr(celda)),
            TOKENS_NULOS \cup {Vacio, << "n", "a", "n" >>}, NaN)

NormalizarRut(celda) ==
    Replace(Upper(Strip(AsStr(celda))), TOKENS_NULOS \cup {Vacio}, NaN)

\* Variant: keep='last', the latest record of a key survives.
MascaraDuplicados_keep_last(df) ==
    [p \in 1..Len(df.filas) |->
        \E q \in (p + 1)..Len(df.filas) : df.filas[q].v[c_rut] = df.filas[p].v[c_rut]]

\* duplicated(subset=['rut'], keep='first')
MascaraDuplicados(df) ==
    [p \in 1..Len(df.filas) |->
        \E q \in 1..(p - 1) : df.filas[q].v[c_rut] = df.filas[p].v[c_rut]]

\* Variant: the mask is used as it is, its negation forgotten.
Negar_olvidado(mask) ==
    mask

Negar(mask) ==
    [p \in 1..Len(mask) |-> ~mask[p]]

ConMotivo(df, motivo) ==
    IF df.filas = << >> THEN df
    ELSE AsignarColumna(df, c_MOTIVO_RECHAZO, [k \in 1..Len(df.filas) |-> motivo])

\* Lines 151-160: the report, columns reordered, without the index.
ReporteExcluidos(sin_rut, duplicados) ==
    LET lista_excluidos ==
            (IF sin_rut.filas # << >> THEN << sin_rut >> ELSE << >>)
            \o (IF duplicados.filas # << >> THEN << duplicados >> ELSE << >>)
        df_excluidos_final == Concat(lista_excluidos)
        primeras == << c_MOTIVO_RECHAZO, c_origen_hoja >>
        columnas_ordenadas ==
            primeras \o SelectSeq(df_excluidos_final.columns,
                                  LAMBDA c : c \notin Range(primeras))
    IN  [columns |-> columnas_ordenadas,
         filas   |-> [k \in 1..Len(df_excluidos_final.filas) |->
                        [c \in Range(columnas_ordenadas) |->
                            df_excluidos_final.filas[k].v[c]]]]

motivo_sin_rut ==
    <<"R", "E", "C", "H", "A", "Z", "O", " ", "C", "R", "Í", "T", "I", "C", "O", ":", " ", "C", "l", "a", "v", "e", " ", "p", "r", "i", "m", "a", "r", "i", "a", " ", "(", "R", "U", "T", ")", " ", "a", "u", "s", "e", "n", "t", "e", " ", "o", " ", "i", "n", "v", "á", "l", "i", "d", "a", ".">>

motivo_duplicado ==
    <<"R", "E", "C", "H", "A", "Z", "O", " ", "P", "O", "R", " ", "D", "U", "P", "L", "I", "C", "I", "D", "A", "D", ":", " ", "R", "U", "T", " ", "y", "a", " ", "i", "n", "g", "r", "e", "s", "a", "d", "o", " ", "e", "n", " ", "u", "n", " ", "r", "e", "g", "i", "s", "t", "r", "o", " ", "o", " ", "a", "r", "c", "h", "i", "v", "o", " ", "a", "n", "t", "e", "r", "i", "o", "r", ".">>

(***************************************************************************)
(* Business rules, lines 167-204                                           *)
(***************************************************************************)
\* Lines 172-174 and 179-181: nombre and apellido from the split of `origen`.
SepararColumna(df, origen) ==
    LET separados == [k \in 1..Len(df.filas) |->
                         separar_nombres_y_apellidos(df.filas[k].v[origen])]
    IN  AsignarColumna(
            AsignarColumna(df, c_nombre, [k \in 1..Len(df.filas) |-> separados[k][1]]),
            c_apellido, [k \in 1..Len(df.filas) |-> separados[k][2]])

\* df['apellido'].replace('', np.nan).dropna().empty
ApellidoSinDatos(df) ==
    \A k \in 1..Len(df.filas) : Replace(df.filas[k].v[c_apellido], {Vacio}, NaN) = NaN

\* 3.1, lines 170-181
ReglaNombres(df) ==
    IF c_nombre_completo \in Range(df.columns)
    THEN SepararColumna(df, c_nombre_completo)
    ELSE IF c_nombre \in Range(df.columns)
              /\ (c_apellido \notin Range(df.columns) \/ ApellidoSinDatos(df))
    THEN SepararColumna(df, c_nombre)
    ELSE df

\* 3.2, lines 184-187
LimpiarCargo(celda) ==
    Replace(Upper(Strip(AsStr(FillNa(celda, Vacio)))), TOKENS_NULOS, Vacio)

ReglaCargo(df) ==
    IF c_cargo \in Range(df.columns)
    THEN AsignarColumna(df, c_cargo,
             [k \in 1..Len(df.filas) |-> LimpiarCargo(df.filas[k].v[c_cargo])])
    ELSE df

\* 3.3, lines 191-198
LiteralNan ==
    << "N", "a", "n" >>

LimpiarCodigo(celda) ==
    Replace(Strip(AsStr(FillNa(celda, Vacio))), {LiteralNan}, Vacio)

LimpiarNombreRbd(celda) ==
    Replace(Title(Strip(AsStr(FillNa(celda, Vacio)))), {LiteralNan}, Vacio)

\* Variant: the separator is written whether or not both sides have text.
Concatenar_siempre(codigo, nombre) ==
    codigo \o << " ", "-", " " >> \o nombre

Concatenar(codigo, nombre) ==
    IF codigo # Vacio /\ nombre # Vacio
    THEN codigo \o << " ", "-", " " >> \o nombre
    ELSE codigo \o nombre

serie_concatenada(df) ==
    [k \in 1..Len(df.filas) |->
        Concatenar(LimpiarCodigo(df.filas[k].v[c_codigo_rbd_temp]),
                   LimpiarNombreRbd(df.filas[k].v[c_nombre_rbd_temp]))]

\* Lines 201-204
InyectarCentro(actual, compuesto) ==
    FillNa(Replace(actual, {Vacio}, NaN), compuesto)

ReglaCentro(df) ==
    IF c_codigo_rbd_temp \in Range(df.columns) /\ c_nombre_rbd_temp \in Range(df.columns)
    THEN IF c_centro_de_trabajo \notin Range(df.columns)
         THEN AsignarColumna(df, c_centro_de_trabajo, serie_concatenada(df))
         ELSE AsignarColumna(df, c_centro_de_trabajo,
                  [k \in 1..Len(df.filas) |->
                      InyectarCentro(df.filas[k].v[c_centro_de_trabajo],
                                     serie_concatenada(df)[k])])
    ELSE df

(***************************************************************************)
(* Assembly and export, lines 206-234                                      *)
(***************************************************************************)
\* reset_index(drop=True)
ResetIndex(df) ==
    DataFrame(df.columns,
        [k \in 1..Len(df.filas) |-> [idx |-> k - 1, v |-> df.filas[k].v]])

\* reindex(columns=columnas): exactly these columns, NaN for a new one.
Reindex(df, columnas) ==
    DataFrame(columnas,
        [k \in 1..Len(df.filas) |->
            [idx |-> df.filas[k].idx,
             v   |-> [c \in Range(columnas) |->
                        IF c \in Range(df.columns) THEN df.filas[k].v[c] ELSE NaN]]])

\* Variant: the missing cells are left as they are.
RellenarVacios_omitido(df) ==
    df

\* astype(object) followed by fillna('')
RellenarVacios(df) ==
    DataFrame(df.columns,
        [k \in 1..Len(df.filas) |->
            [idx |-> df.filas[k].idx,
             v   |-> [c \in Range(df.columns) |-> FillNa(df.filas[k].v[c], Vacio)]]])

Ensamblar(df) ==
    RellenarVacios(Reindex(ResetIndex(df), columnas_template))

\* Lines 218-226: is the row painted yellow?
aplicar_resaltado_correo_ausente(fila) ==
    LET correo_valor == Lower(Strip(AsStr(IF c_correo \in DOMAIN fila
                                          THEN fila[c_correo] ELSE Vacio)))
    IN  correo_valor \in { Vacio, << "n", "a", "n" >>, << "n", "o", "n", "e" >>,
                           << "n", "u", "l", "l" >> }

\* to_excel(index=False) of the styled frame.
HojaSalida(df) ==
    [columns   |-> df.columns,
     filas     |-> [k \in 1..Len(df.filas) |-> df.filas[k].v],
     resaltado |-> [k \in 1..Len(df.filas) |->
                      aplicar_resaltado_correo_ausente(df.filas[k].v)]]

\* No such file on disk.
NoEscrito ==
    [ausente |-> TRUE]


(***************************************************************************)
(* The input directories the model explores                                *)
(***************************************************************************)
\* Headers lst the client's sheets spell them.
h_RUT ==
    << "R", "U", "T" >>
h_Run ==
    << "R", "u", "n" >>
h_Rut_Trabajador ==
    << " ", "R", "u", "t", " ", "T", "r", "a", "b", "a", "j", "a", "d", "o", "r", " " >>
h_R_U_T ==
    << "R", ".", "U", ".", "T" >>
h_Nombre_Completo ==
    << "N", "o", "m", "b", "r", "e", " ", "C", "o", "m", "p", "l", "e", "t", "o" >>
h_Nombres ==
    << "N", "o", "m", "b", "r", "e", "s" >>
h_Apellidos ==
    << "A", "p", "e", "l", "l", "i", "d", "o", "s" >>
h_E_mail ==
    << "E", "-", "m", "a", "i", "l" >>
h_Area ==
    << " ", "Á", "r", "e", "a" >>
h_Cargo ==
    << "C", "a", "r", "g", "o" >>
h_Sueldo ==
    << "S", "u", "e", "l", "d", "o" >>
h_RBD ==
    << "R", "B", "D" >>
h_Colegio ==
    << "C", "o", "l", "e", "g", "i", "o" >>
h_Sucursal ==
    << "S", "u", "c", "u", "r", "s", "a", "l" >>

\* Cell values.
v_1k ==
    << "1", "k" >>
v_1K_esp ==
    << " ", "1", "K" >>
v_esp ==
    << " " >>
v_none ==
    << "n", "o", "n", "e" >>
v_9 ==
    << "9" >>
v_2 ==
    << "2" >>
v_3 ==
    << "3" >>
v_4 ==
    << "4" >>
v_5 ==
    << "5" >>
v_correo ==
    << "a", "@", "b" >>
v_TI ==
    << "T", "I" >>
v_jefe ==
    << " ", "j", "e", "f", "e", " " >>
v_100 ==
    << "1", "0", "0" >>
v_Ana_Paz ==
    << "A", "n", "a", " ", "P", "a", "z" >>
v_Eva_Gil ==
    << "E", "v", "a", " ", "G", "i", "l" >>
v_Diaz ==
    << "D", "i", "a", "z" >>
v_12 ==
    << "1", "2" >>
v_el_sol ==
    << "e", "l", " ", "s", "o", "l" >>
v_NAN ==
    << "N", "A", "N" >>
v_Sede ==
    << "S", "e", "d", "e" >>

\* A layout is a list of << header, values a cell under it may hold >>.
\* read_excel(dtype=str) delivers a blank cell as NaN.
PlantillaRut ==
    << << h_RUT, {v_1k, v_1K_esp, v_2, v_esp, v_none} >>, << h_Run, {v_9} >> >>

PlantillaSinRut ==
    << << h_E_mail, {v_correo, NaN} >>, << h_Sueldo, {v_100} >> >>

PlantillaNombreCompleto ==
    << << h_Rut_Trabajador, {v_2} >>, << h_Nombre_Completo, {v_Ana_Paz} >>,
       << h_Cargo, {v_jefe} >> >>

PlantillaNombreApellido ==
    << << h_R_U_T, {v_3, v_4} >>, << h_Nombres, {v_Eva_Gil} >>,
       << h_Apellidos, {v_Diaz, NaN} >> >>

PlantillaSoloNombre ==
    << << h_Run, {v_5} >>, << h_Nombres, {v_Eva_Gil} >>, << h_Area, {v_TI} >> >>

PlantillaRbd ==
    << << h_Run, {v_4} >>, << h_RBD, {v_12, v_esp} >>,
       << h_Colegio, {v_el_sol, v_NAN} >> >>

PlantillaSucursal ==
    << << h_Run, {v_5} >>, << h_Sucursal, {v_Sede} >>, << h_RBD, {v_12} >>,
       << h_Colegio, {v_el_sol} >> >>

\* The sheets of one directory use the layouts of one group.
Grupos ==
    { {PlantillaRut, PlantillaSinRut},
      {PlantillaNombreCompleto, PlantillaNombreApellido, PlantillaSoloNombre},
      {PlantillaRbd, PlantillaSucursal} }

\* A sheet with a header row and nothing under it.
HojaVacia ==
    << h_RUT, h_Cargo >>

RECURSIVE Producto(_)
Producto(dominios) ==
    IF dominios = << >> THEN { << >> }
    ELSE { << x >> \o resto : x \in Head(dominios), resto \in Producto(Tail(dominios)) }

Encabezados(plantilla) ==
    [i \in 1..Len(plantilla) |-> plantilla[i][1]]

\* Every row a sheet of some layout of the group may hold.
FilasPosibles(grupo) ==
    UNION { { [encabezados |-> Encabezados(p), celdas |-> cs] :
                cs \in Producto([i \in 1..Len(p) |-> p[i][2]]) } : p \in grupo }

DIGITOS ==
    << "1", "2", "3", "4", "5", "6", "7", "8", "9" >>

NombreArchivo(k) ==
    << "f", DIGITOS[k], ".", "x", "l", "s", "x" >>

NombreHoja(k) ==
    << "h", DIGITOS[k] >>

ArchivoIlegible(k) ==
    [nombre |-> NombreArchivo(k), legible |-> FALSE, hojas |-> << >>]

Hoja(k, encabezados, filas) ==
    [nombre |-> NombreHoja(k), encabezados |-> encabezados, filas |-> filas]

ArchivoCon(k, hoja) ==
    [nombre |-> NombreArchivo(k), legible |-> TRUE, hojas |-> << hoja >>]

Ultimo(s) ==
    s[Len(s)]

SalvoUltimo(s) ==
    SubSeq(s, 1, Len(s) - 1)

\* The directories one more element makes of the list of files `lst`: a new
\* unreadable file, a new empty sheet or a new row, the latter two in a new
\* file, in a new sheet of the last file, or (a row) in its last sheet.
Extensiones(lst, grupo) ==
    LET k == Len(lst) + 1
        hojas_nuevas ==
            { Hoja(1, f.encabezados, << f.celdas >>) : f \in FilasPosibles(grupo) }
            \cup { Hoja(1, HojaVacia, << >>) }
        en_archivo_nuevo ==
            { Append(lst, ArchivoIlegible(k)) }
            \cup { Append(lst, ArchivoCon(k, h)) : h \in hojas_nuevas }
        en_hoja_nueva ==
            IF lst = << >> \/ ~Ultimo(lst).legible THEN {}
            ELSE LET a == Ultimo(lst)
                 IN  { Append(SalvoUltimo(lst),
                           [a EXCEPT !.hojas =
                               Append(a.hojas,
                                      [h EXCEPT !.nombre = NombreHoja(Len(a.hojas) + 1)])])
                       : h \in hojas_nuevas }
        en_ultima_hoja ==
            IF lst = << >> \/ ~Ultimo(lst).legible THEN {}
            ELSE LET a == Ultimo(lst)
                     h == Ultimo(a.hojas)
                 IN  IF h.filas = << >> THEN {}
                     ELSE { Append(SalvoUltimo(lst),
                                [a EXCEPT !.hojas =
                                    Append(SalvoUltimo(a.hojas),
                                           [h EXCEPT !.filas = Append(h.filas, f.celdas)])])
                            : f \in { g \in FilasPosibles(grupo) : g.encabezados = h.encabezados } }
    IN  en_archivo_nuevo \cup en_hoja_nueva \cup en_ultima_hoja

RECURSIVE ListasDeArchivos(_, _)
ListasDeArchivos(n, grupo) ==
    IF n = 0 THEN { << >> }
    ELSE LET previas == ListasDeArchivos(n - 1, grupo)
         IN  previas \cup UNION { Extensiones(lst, grupo) : lst \in previas }

Carpetas ==
    { [existe |-> FALSE, archivos |-> << >>] }
    \cup { [existe |-> TRUE, archivos |-> lst] :
             lst \in UNION { ListasDeArchivos(MaxElementos, g) : g \in Grupos } }

\* glob promises no order: any arrangement of the files may come back.
Permutaciones(n) ==
    { p \in [1..n -> 1..n] : \A i, j \in 1..n : p[i] = p[j] => i = j }

ALFABETO ==
    { "a", "b", " " }

RECURSIVE TextosDe(_)
TextosDe(n) ==
    IF n = 0 THEN { Vacio }
    ELSE LET previos == TextosDe(n - 1)
         IN  previos \cup { Append(t, c) : t \in previos, c \in ALFABETO }


(***************************************************************************)
(* formatear_nomina_cliente, step by step                                  *)
(***************************************************************************)
SinResultado ==
    << >>

LocalesIniciales ==
    /\ archivos_excel = << >>
    /\ lista_dataframes_procesados = << >>
    /\ df_cliente = SinDatos
    /\ df_sin_rut = SinDatos
    /\ df_con_rut = SinDatos
    /\ df_duplicados = SinDatos
    /\ df_final = SinDatos

Init ==
    /\ carpeta \in Carpetas
    /\ archivo_salida = NoEscrito
    /\ archivo_excluidos = NoEscrito
    /\ ejecucion = "primera"
    /\ pc = "inicio"
    /\ LocalesIniciales
    /\ texto = NaN
    /\ resultado = SinResultado

\* Lines 52-61 and 93: the directory check and the glob.
Iniciar ==
    /\ pc = "inicio"
    /\ IF ~carpeta.existe
       THEN /\ carpeta' = [carpeta EXCEPT !.existe = TRUE]
            /\ pc' = "fin"
            /\ UNCHANGED archivos_excel
       ELSE IF carpeta.archivos = << >>
       THEN /\ pc' = "fin"
            /\ UNCHANGED << carpeta, archivos_excel >>
       ELSE /\ \E p \in Permutaciones(Len(carpeta.archivos)) :
                archivos_excel' = [i \in 1..Len(carpeta.archivos) |-> carpeta.archivos[p[i]]]
            /\ pc' = "leer"
            /\ UNCHANGED carpeta
    /\ UNCHANGED << archivo_salida, archivo_excluidos, ejecucion,
                    lista_dataframes_procesados, df_cliente, df_sin_rut, df_con_rut,
                    df_duplicados, df_final, texto, resultado >>

\* Lines 97-123: phase 1, every file glob listed, in that order.
Extraer ==
    /\ pc = "leer"
    /\ lista_dataframes_procesados' =
           Aplanar([i \in 1..Len(archivos_excel) |-> ProcesarArchivo(archivos_excel[i])])
    /\ pc' = "consolidar"
    /\ UNCHANGED << carpeta, archivo_salida, archivo_excluidos, ejecucion, archivos_excel,
                    df_cliente, df_sin_rut, df_con_rut, df_duplicados, df_final,
                    texto, resultado >>

\* Lines 125-130
Consolidar ==
    /\ pc = "consolidar"
    /\ IF lista_dataframes_procesados = << >>
       THEN /\ pc' = "fin"
            /\ UNCHANGED df_cliente
       ELSE /\ df_cliente' = Concat(lista_dataframes_procesados)
            /\ pc' = "auditar"
    /\ UNCHANGED << carpeta, archivo_salida, archivo_excluidos, ejecucion, archivos_excel,
                    lista_dataframes_procesados, df_sin_rut, df_con_rut, df_duplicados,
                    df_final, texto, resultado >>

\* Lines 134-165: what the audit makes of the consolidated frame.
Auditoria(df) ==
    LET normalizado == AsignarColumna(df, c_rut,
                           [k \in 1..Len(df.filas) |-> NormalizarRut(df.filas[k].v[c_rut])])
        mask_sin_rut == [k \in 1..Len(df.filas) |-> normalizado.filas[k].v[c_rut] = NaN]
        con_rut == Filtrar(normalizado, Negar(mask_sin_rut))
        mask_duplicados == MascaraDuplicados(con_rut)
    IN  [sin_rut    |-> ConMotivo(Filtrar(normalizado, mask_sin_rut), motivo_sin_rut),
         con_rut    |-> con_rut,
         duplicados |-> ConMotivo(Filtrar(con_rut, mask_duplicados), motivo_duplicado),
         validos    |-> Filtrar(con_rut, Negar(mask_duplicados))]

\* Lines 132-165: phase 2, skipped as a whole when no sheet had a RUT column.
Auditar ==
    /\ pc = "auditar"
    /\ IF c_rut \in Range(df_cliente.columns)
       THEN LET a == Auditoria(df_cliente)
            IN  /\ df_sin_rut' = a.sin_rut
                /\ df_con_rut' = a.con_rut
                /\ df_duplicados' = a.duplicados
                /\ df_cliente' = a.validos
                /\ archivo_excluidos' =
                       IF a.sin_rut.filas # << >> \/ a.duplicados.filas # << >>
                       THEN ReporteExcluidos(a.sin_rut, a.duplicados)
                       ELSE archivo_excluidos
       ELSE UNCHANGED << df_sin_rut, df_con_rut, df_duplicados, df_cliente,
                         archivo_excluidos >>
    /\ pc' = "nombres"
    /\ UNCHANGED << carpeta, archivo_salida, ejecucion, archivos_excel,
                    lista_dataframes_procesados, df_final, texto, resultado >>

\* Lines 170-181
NormalizarNombres ==
    /\ pc = "nombres"
    /\ df_cliente' = ReglaNombres(df_cliente)
    /\ pc' = "cargo"
    /\ UNCHANGED << carpeta, archivo_salida, archivo_excluidos, ejecucion, archivos_excel,
                    lista_dataframes_procesados, df_sin_rut, df_con_rut, df_duplicados,
                    df_final, texto, resultado >>

\* Lines 184-187
EstandarizarCargo ==
    /\ pc = "cargo"
    /\ df_cliente' = ReglaCargo(df_cliente)
    /\ pc' = "centro"
    /\ UNCHANGED << carpeta, archivo_salida, archivo_excluidos, ejecucion, archivos_excel,
                    lista_dataframes_procesados, df_sin_rut, df_con_rut, df_duplicados,
                    df_final, texto, resultado >>

\* Lines 190-204
ConsolidarCentro ==
    /\ pc = "centro"
    /\ df_cliente' = ReglaCentro(df_cliente)
    /\ pc' = "ensamblar"
    /\ UNCHANGED << carpeta, archivo_salida, archivo_excluidos, ejecucion, archivos_excel,
                    lista_dataframes_procesados, df_sin_rut, df_con_rut, df_duplicados,
                    df_final, texto, resultado >>

\* Lines 209-216
EnsamblarPlantilla ==
    /\ pc = "ensamblar"
    /\ df_cliente' = ResetIndex(df_cliente)
    /\ df_final' = Ensamblar(df_cliente)
    /\ pc' = "exportar"
    /\ UNCHANGED << carpeta, archivo_salida, archivo_excluidos, ejecucion, archivos_excel,
                    lista_dataframes_procesados, df_sin_rut, df_con_rut, df_duplicados,
                    texto, resultado >>

\* Lines 228-234: the write may fail; the error is printed and the run ends.
Exportar ==
    /\ pc = "exportar"
    /\ \E escrito \in BOOLEAN :
           archivo_salida' = IF escrito THEN HojaSalida(df_final) ELSE archivo_salida
    /\ pc' = "fin"
    /\ UNCHANGED << carpeta, archivo_excluidos, ejecucion, archivos_excel,
                    lista_dataframes_procesados, df_cliente, df_sin_rut, df_con_rut,
                    df_duplicados, df_final, texto, resultado >>

Next ==
    \/ Iniciar
    \/ Extraer
    \/ Consolidar
    \/ Auditar
    \/ NormalizarNombres
    \/ EstandarizarCargo
    \/ ConsolidarCentro
    \/ EnsamblarPlantilla
    \/ Exportar

\* One run of the script on any directory.
Spec ==
    Init /\ [][Next]_vars

(***************************************************************************)
(* The script run twice on the same directory                              *)
(***************************************************************************)
\* Lines 236-237: the script is run a second time on the same directory; only the
\* directory and the two output files outlive a run.
Reejecutar ==
    /\ pc = "fin"
    /\ ejecucion = "primera"
    /\ ejecucion' = "segunda"
    /\ pc' = "inicio"
    /\ archivos_excel' = << >>
    /\ lista_dataframes_procesados' = << >>
    /\ df_cliente' = SinDatos
    /\ df_sin_rut' = SinDatos
    /\ df_con_rut' = SinDatos
    /\ df_duplicados' = SinDatos
    /\ df_final' = SinDatos
    /\ UNCHANGED << carpeta, archivo_salida, archivo_excluidos, texto, resultado >>

NextReejecucion ==
    \/ Next
    \/ Reejecutar

SpecReejecucion ==
    Init /\ [][NextReejecucion]_vars

(***************************************************************************)
(* separar_nombres_y_apellidos on its own: one call on any short text      *)
(***************************************************************************)
InitSeparar ==
    /\ texto \in TextosDe(MaxLen) \cup {NaN}
    /\ resultado = SinResultado
    /\ carpeta = [existe |-> FALSE, archivos |-> << >>]
    /\ archivo_salida = NoEscrito
    /\ archivo_excluidos = NoEscrito
    /\ ejecucion = "primera"
    /\ pc = "fin"
    /\ LocalesIniciales

Separar ==
    /\ resultado = SinResultado
    /\ resultado' = separar_nombres_y_apellidos(texto)
    /\ UNCHANGED << carpeta, archivo_salida, archivo_excluidos, ejecucion, pc,
                    archivos_excel, lista_dataframes_procesados, df_cliente,
                    df_sin_rut, df_con_rut, df_duplicados, df_final, texto >>

NextSeparar ==
    Separar

SpecSeparar ==
    InitSeparar /\ [][NextSeparar]_vars


(***************************************************************************)
(* Vocabulary of the properties                                            *)
(***************************************************************************)
\* The consolidated records: one per row of every readable, non-empty sheet,
\* in consolidation order, with the cells of its own sheet as extracted.
FilasConsolidadas ==
    Aplanar([i \in 1..Len(lista_dataframes_procesados) |->
                lista_dataframes_procesados[i].filas])

Registro(i) ==
    FilasConsolidadas[i + 1].v

IndicesConsolidados ==
    0..(Len(FilasConsolidadas) - 1)

Indices(df) ==
    {df.filas[k].idx : k \in 1..Len(df.filas)}

\* The audit is over and the rows still carry their consolidation index.
TrasAuditoria ==
    pc \in {"nombres", "cargo", "centro", "ensamblar"}

\* The projected record set exists.
ConSalida ==
    pc = "exportar" \/ (pc = "fin" /\ df_final # SinDatos)

Campo(registro, c) ==
    IF c \in DOMAIN registro THEN registro[c] ELSE NaN

ClaveNormal(registro) ==
    Upper(Strip(Campo(registro, c_rut)))

ClaveAusente(registro) ==
    \/ Campo(registro, c_rut) = NaN
    \/ ClaveNormal(registro) \in { Vacio, << "N", "A", "N" >>, << "N", "O", "N", "E" >>,
                                  << "N", "U", "L", "L" >> }

TodoVacio(fila) ==
    \A c \in DOMAIN fila : fila[c] = Vacio

(***************************************************************************)
(* C1: after the key audit every consolidated record is in exactly one of  *)
(* valid, missing-key, duplicate-key; none is lost, none is in two         *)
(* classes, and valid + rejected = consolidated.                           *)
(***************************************************************************)
C1_Particion ==
    /\ TrasAuditoria =>
          /\ Indices(df_cliente) \cup Indices(df_sin_rut) \cup Indices(df_duplicados)
                = IndicesConsolidados
          /\ Indices(df_cliente) \cap Indices(df_sin_rut) = {}
          /\ Indices(df_cliente) \cap Indices(df_duplicados) = {}
          /\ Indices(df_sin_rut) \cap Indices(df_duplicados) = {}
          /\ Len(df_cliente.filas) + Len(df_sin_rut.filas) + Len(df_duplicados.filas)
                = Len(FilasConsolidadas)
          /\ \A df \in {df_cliente, df_sin_rut, df_duplicados} :
                \A k \in 1..Len(df.filas) :
                    df.filas[k].v[c_origen_hoja]
                        = Registro(df.filas[k].idx)[c_origen_hoja]
    /\ ConSalida =>
          Len(df_final.filas) + Len(df_sin_rut.filas) + Len(df_duplicados.filas)
              = Len(FilasConsolidadas)

\* Witness: a run whose audit found a valid record and a duplicate of it.
C1_Testigo ==
    /\ TrasAuditoria
    /\ df_cliente.filas # << >>
    /\ df_duplicados.filas # << >>

(***************************************************************************)
(* C2: no two records of the valid set, nor of the projected output, have  *)
(* the same primary key once trimmed and upper-cased.                      *)
(***************************************************************************)
C2_ClaveUnica ==
    /\ (pc \in {"nombres", "cargo", "centro", "ensamblar", "exportar", "fin"}
            /\ c_rut \in Range(df_cliente.columns)) =>
          \A i, j \in 1..Len(df_cliente.filas) :
              i # j => Upper(Strip(AsStr(df_cliente.filas[i].v[c_rut])))
                          # Upper(Strip(AsStr(df_cliente.filas[j].v[c_rut])))
    /\ ConSalida =>
          \A i, j \in 1..Len(df_final.filas) :
              (i # j /\ df_final.filas[i].v[c_rut] # Vacio) =>
                  Upper(Strip(df_final.filas[i].v[c_rut]))
                      # Upper(Strip(df_final.filas[j].v[c_rut]))

\* Witness: two source rows whose RUT differ only in case and surrounding
\* whitespace were consolidated, and one record reached the output.
C2_Testigo ==
    /\ ConSalida
    /\ Len(df_final.filas) = 1
    /\ \E i, j \in IndicesConsolidados :
          /\ i # j
          /\ ~ClaveAusente(Registro(i))
          /\ Registro(i)[c_rut] # Registro(j)[c_rut]
          /\ ClaveNormal(Registro(i)) = ClaveNormal(Registro(j))

(***************************************************************************)
(* C3: every consolidated record whose primary key is absent (no RUT       *)
(* field, or a RUT that is empty, whitespace or NAN/NONE/NULL in any case) *)
(* is rejected as missing-key and never reaches the valid set or the       *)
(* output, also when no sheet has a RUT column.                            *)
(***************************************************************************)
C3_AusenteRechazado ==
    /\ TrasAuditoria =>
          \A i \in IndicesConsolidados :
              ClaveAusente(Registro(i)) =>
                  /\ i \notin Indices(df_cliente)
                  /\ \E k \in 1..Len(df_sin_rut.filas) :
                        /\ df_sin_rut.filas[k].idx = i
                        /\ df_sin_rut.filas[k].v[c_MOTIVO_RECHAZO] = motivo_sin_rut
    /\ ConSalida =>
          \A k \in 1..Len(df_final.filas) : df_final.filas[k].v[c_rut] # Vacio

\* Where each row of the files glob listed comes from, and its first cell,
\* file by file, sheet by sheet, row by row.
OrdenDeLectura ==
    Aplanar([a \in 1..Len(archivos_excel) |->
        IF ~archivos_excel[a].legible THEN << >>
        ELSE Aplanar([h \in 1..Len(archivos_excel[a].hojas) |->
                [r \in 1..Len(archivos_excel[a].hojas[h].filas) |->
                    << archivos_excel[a].nombre \o << " ", "-", ">", " " >>
                          \o archivos_excel[a].hojas[h].nombre,
                       archivos_excel[a].hojas[h].filas[r][1] >>]])])

RECURSIVE PrimerasClaves(_)
PrimerasClaves(n) ==
    IF n = 0 THEN << >>
    ELSE LET antes == PrimerasClaves(n - 1)
             reg   == FilasConsolidadas[n].v
         IN  IF ClaveAusente(reg) \/ ClaveNormal(reg) \in Range(antes)
             THEN antes ELSE Append(antes, ClaveNormal(reg))

(***************************************************************************)
(* C4: first seen wins, in consolidation order (file, then sheet, then     *)
(* row): the valid record of a key is the earliest one carrying it, every  *)
(* later one is rejected as duplicate-key, and the valid records keep      *)
(* their consolidation order in the output.                                *)
(***************************************************************************)
C4_PrimeroGana ==
    /\ pc \in {"consolidar", "auditar", "nombres", "cargo", "centro", "ensamblar"} =>
          /\ Len(FilasConsolidadas) = Len(OrdenDeLectura)
          /\ \A n \in 1..Len(FilasConsolidadas) :
                /\ FilasConsolidadas[n].v[c_origen_hoja] = OrdenDeLectura[n][1]
                /\ \E c \in DOMAIN FilasConsolidadas[n].v :
                      FilasConsolidadas[n].v[c] = OrdenDeLectura[n][2]
    /\ TrasAuditoria =>
          /\ \A i \in IndicesConsolidados :
                ~ClaveAusente(Registro(i)) =>
                    IF \E j \in 0..(i - 1) :
                          /\ ~ClaveAusente(Registro(j))
                          /\ ClaveNormal(Registro(j)) = ClaveNormal(Registro(i))
                    THEN \E k \in 1..Len(df_duplicados.filas) :
                            /\ df_duplicados.filas[k].idx = i
                            /\ df_duplicados.filas[k].v[c_MOTIVO_RECHAZO] = motivo_duplicado
                    ELSE i \in Indices(df_cliente)
          /\ \A k \in 1..(Len(df_cliente.filas) - 1) :
                df_cliente.filas[k].idx < df_cliente.filas[k + 1].idx
    /\ ConSalida =>
          SelectSeq(Columna(df_final, c_rut), LAMBDA x : x # Vacio)
              = PrimerasClaves(Len(FilasConsolidadas))

\* Witness: glob listed the files in another order than the directory holds
\* them, and a record of the file read second was rejected as a duplicate of
\* a record of the file read first.
C4_Testigo ==
    /\ TrasAuditoria
    /\ Len(archivos_excel) = 2
    /\ archivos_excel[1] = carpeta.archivos[2]
    /\ \E k \in 1..Len(df_duplicados.filas) :
          SubSeq(df_duplicados.filas[k].v[c_origen_hoja], 1, 7) = archivos_excel[2].nombre
    /\ \E k \in 1..Len(df_cliente.filas) :
          SubSeq(df_cliente.filas[k].v[c_origen_hoja], 1, 7) = archivos_excel[1].nombre


\* The tokens of a text, read off its characters: a token starts at a
\* non-blank that no non-blank precedes and runs up to the next blank.
Tokens(s) ==
    LET inicios == {i \in 1..Len(s) :
                       ~EsEspacio(s[i]) /\ (i = 1 \/ EsEspacio(s[i - 1]))}
        fin(i)  == CHOOSE j \in i..Len(s) :
                       /\ \A m \in i..j : ~EsEspacio(s[m])
                       /\ (j = Len(s) \/ EsEspacio(s[j + 1]))
        RECURSIVE Desde(_)
        Desde(i) ==
            IF i > Len(s) THEN << >>
            ELSE IF i \in inicios THEN << SubSeq(s, i, fin(i)) >> \o Desde(fin(i) + 1)
            ELSE Desde(i + 1)
    IN  Desde(1)

UnidosPorEspacio(ts) ==
    Aplanar([i \in 1..Len(ts) |-> IF i = 1 THEN ts[i] ELSE << " " >> \o ts[i]])

(***************************************************************************)
(* C5: separar_nombres_y_apellidos returns ("", "") for a null, empty or   *)
(* whitespace-only text; otherwise, for the n whitespace-separated tokens  *)
(* of the text, (t1, "") for n = 1, (t1, t2) for n = 2, (t1, "t2 t3") for  *)
(* n = 3 and ("t1 t2", the other tokens joined by single spaces) for       *)
(* n >= 4; no token is dropped, duplicated or reordered.                   *)
(***************************************************************************)
C5_Separacion ==
    resultado # SinResultado =>
        LET t == IF texto = NaN THEN << >> ELSE Tokens(texto)
            n == Len(t)
        IN  /\ n = 0 => resultado = << Vacio, Vacio >>
            /\ n = 1 => resultado = << t[1], Vacio >>
            /\ n = 2 => resultado = << t[1], t[2] >>
            /\ n = 3 => resultado = << t[1], t[2] \o << " " >> \o t[3] >>
            /\ n >= 4 => resultado = << t[1] \o << " " >> \o t[2],
                                        UnidosPorEspacio(SubSeq(t, 3, n)) >>
            /\ Tokens(resultado[1]) \o Tokens(resultado[2]) = t

\* Witness: a text of four tokens with blanks around and between them was
\* split.
C5_Testigo ==
    /\ resultado # SinResultado
    /\ texto # NaN
    /\ Len(Tokens(texto)) >= 4
    /\ Len(texto) > Len(resultado[1]) + Len(resultado[2]) + 1

TextoDe(celda) ==
    IF celda = NaN THEN Vacio ELSE celda

SinNan(s) ==
    IF s = << "N", "a", "n" >> THEN Vacio ELSE s

CompuestoEsperado(registro) ==
    LET codigo == SinNan(Strip(TextoDe(registro[c_codigo_rbd_temp])))
        nombre == SinNan(Title(Strip(TextoDe(registro[c_nombre_rbd_temp]))))
    IN  IF codigo # Vacio /\ nombre # Vacio
        THEN codigo \o << " ", "-", " " >> \o nombre
        ELSE IF codigo # Vacio THEN codigo
        ELSE IF nombre # Vacio THEN nombre
        ELSE Vacio

CentroEsperado(registro) ==
    LET propio == TextoDe(Campo(registro, c_centro_de_trabajo))
    IN  IF propio # Vacio THEN propio ELSE CompuestoEsperado(registro)

TieneCodigoYNombre(registro) ==
    c_codigo_rbd_temp \in DOMAIN registro /\ c_nombre_rbd_temp \in DOMAIN registro

(***************************************************************************)
(* C6: a valid record that has a site-code and a site-name field gets, as  *)
(* composite, "<code> - <name>" (code trimmed, name trimmed and            *)
(* title-cased, "Nan" read as empty) when both are non-empty, the          *)
(* non-empty one alone when one is, "" when neither is; its work-site      *)
(* value is its own when that is non-empty, the composite otherwise.       *)
(***************************************************************************)
C6_CentroDeTrabajo ==
    /\ pc = "ensamblar" =>
          \A k \in 1..Len(df_cliente.filas) :
              TieneCodigoYNombre(Registro(df_cliente.filas[k].idx)) =>
                  /\ c_centro_de_trabajo \in Range(df_cliente.columns)
                  /\ df_cliente.filas[k].v[c_centro_de_trabajo]
                        = CentroEsperado(Registro(df_cliente.filas[k].idx))
    /\ pc = "exportar" =>
          \A k \in 1..Len(df_final.filas) :
              df_final.filas[k].v[c_centro_de_trabajo]
                  = TextoDe(Campo(df_cliente.filas[k].v, c_centro_de_trabajo))

\* Witness: of two valid records with both fields, one keeps its own
\* work-site value and the other receives a composite with the separator.
C6_Testigo ==
    /\ pc = "ensamblar"
    /\ \E k, m \in 1..Len(df_cliente.filas) :
          /\ TieneCodigoYNombre(Registro(df_cliente.filas[k].idx))
          /\ TextoDe(Campo(Registro(df_cliente.filas[k].idx), c_centro_de_trabajo)) # Vacio
          /\ TieneCodigoYNombre(Registro(df_cliente.filas[m].idx))
          /\ Campo(Registro(df_cliente.filas[m].idx), c_centro_de_trabajo) = NaN
          /\ df_cliente.filas[m].v[c_centro_de_trabajo]
                = << "1", "2", " ", "-", " ", "E", "l", " ", "S", "o", "l" >>

(***************************************************************************)
(* C7: the projected output has exactly the 16 template columns in the     *)
(* template order, whatever fields the records carry, and the cell of a    *)
(* template field that a valid record lacks, or holds as null, is the      *)
(* empty string, never a null marker.                                      *)
(***************************************************************************)
C7_Proyeccion ==
    /\ ConSalida =>
          /\ df_final.columns = columnas_template
          /\ Len(df_final.columns) = 16
          /\ Cardinality(Range(df_final.columns)) = 16
          /\ \A k \in 1..Len(df_final.filas) :
                /\ DOMAIN df_final.filas[k].v = Range(columnas_template)
                /\ \A c \in Range(columnas_template) : df_final.filas[k].v[c] # NaN
    /\ pc = "exportar" =>
          /\ Len(df_final.filas) = Len(df_cliente.filas)
          /\ \A k \in 1..Len(df_final.filas) :
                \A c \in Range(columnas_template) :
                    df_final.filas[k].v[c] = TextoDe(Campo(df_cliente.filas[k].v, c))
    /\ archivo_salida # NoEscrito => archivo_salida.columns = columnas_template

\* Witness: a valid record with a field outside the template and a null
\* template field was projected.
C7_Testigo ==
    /\ pc = "exportar"
    /\ \E k \in 1..Len(df_cliente.filas) :
          /\ \E c \in DOMAIN df_cliente.filas[k].v :
                c \notin Range(columnas_template) \cup {c_origen_hoja}
          /\ \E c \in DOMAIN df_cliente.filas[k].v :
                c \in Range(columnas_template) /\ df_cliente.filas[k].v[c] = NaN
          /\ \E c \in Range(columnas_template) : c \notin DOMAIN df_cliente.filas[k].v

(***************************************************************************)
(* C8: a record that is empty in all 16 template fields is dropped: the    *)
(* projected output never holds a row of 16 empty cells.                   *)
(***************************************************************************)
C8_SinFilasVacias ==
    ConSalida => \A k \in 1..Len(df_final.filas) : ~TodoVacio(df_final.filas[k].v)

(***************************************************************************)
(* C9: a second run on the same directory projects the same rows, with the *)
(* same cells in the same order, as the first, whatever the order in which *)
(* the files are listed.                                                   *)
(***************************************************************************)
C9_Idempotencia ==
    (ejecucion = "segunda" /\ pc = "exportar" /\ archivo_salida # NoEscrito) =>
        archivo_salida.filas = [k \in 1..Len(df_final.filas) |-> df_final.filas[k].v]

(***************************************************************************)
(* C10: name splitting is decided record by record: a valid record's       *)
(* first and last name are replaced by the split exactly when the record   *)
(* has a full name, or a first name and no usable last name of its own; a  *)
(* record with its own non-empty first and last name and no full name      *)
(* keeps both, whatever the other records of the run hold.                 *)
(***************************************************************************)
C10_SeparacionPorRegistro ==
    pc = "cargo" =>
        \A k \in 1..Len(df_cliente.filas) :
            LET reg      == Registro(df_cliente.filas[k].idx)
                completo == TextoDe(Campo(reg, c_nombre_completo))
                nombre   == TextoDe(Campo(reg, c_nombre))
                apellido == TextoDe(Campo(reg, c_apellido))
                fila     == df_cliente.filas[k].v
            IN  /\ completo # Vacio =>
                      << fila[c_nombre], fila[c_apellido] >>
                          = separar_nombres_y_apellidos(completo)
                /\ (completo = Vacio /\ nombre # Vacio /\ apellido = Vacio) =>
                      << fila[c_nombre], fila[c_apellido] >>
                          = separar_nombres_y_apellidos(nombre)
                /\ (completo = Vacio /\ nombre # Vacio /\ apellido # Vacio) =>
                      << fila[c_nombre], fila[c_apellido] >> = << nombre, apellido >>

====
